---- MODULE Spec2Model ----
(***************************************************************************)
(* The cart state manager of shopping-cart-service (package cart):         *)
(* ShoppingCart.GetCart / AddItem / UpdateItemQuantity / RemoveItem /      *)
(* ClearCart over a Redis hash per user ("cart:<userID>", field = SKU,     *)
(* value = JSON of Item) with an idle expiry, validated against the        *)
(* product catalog.                                                        *)
(*                                                                         *)
(* The Cart Manager itself is stateless: the state is the Redis keyspace.  *)
(* The catalog is an external service: what it answers to a lookup is an   *)
(* input of the call that makes the lookup.  A Redis command either takes  *)
(* effect and returns, or fails with an error and has no effect; each      *)
(* handler takes the set of replies the store may give.                    *)
(***************************************************************************)
EXTENDS Integers, Sequences, FiniteSets, TLC

\* ------------------------------------------------------------------ inputs

\* Largest quantity a caller requests (requests range over -1..MaxQty).
MaxQty == 2

\* The configured idle window in seconds (ShoppingCart.ttl, set by New).
ttl == 2

Users == {1}

\* The SKUs callers pass; "" is the empty (invalid) SKU.
SKUs == {"", "sku-1", "sku-2"}

Quantities == -1 .. MaxQty

\* Catalog data a SKU may carry at the time of a lookup.
CatalogData ==
    { [Price |-> 10, Name |-> "name-v1", ImageUrl |-> "img-v1"],
      [Price |-> 15, Name |-> "name-v2", ImageUrl |-> "img-v2"] }

Stocks == (MaxQty - 1) .. MaxQty

\* What GetProductBySKU may answer: a product, codes.NotFound, or any other
\* (transient) error.
Lookups ==
    { [status |-> "NotFound"], [status |-> "Unavailable"] }
    \cup { [status |-> "Found", Price |-> d.Price, Name |-> d.Name,
            ImageUrl |-> d.ImageUrl, StockQuantity |-> s] :
           d \in CatalogData, s \in Stocks }

NoLookup == [status |-> "NotCalled"]

\* ------------------------------------------------------------------ errors

OK == "OK"
ErrItemNotFound == "ErrItemNotFound"
ErrProductNotFound == "ErrProductNotFound"
ErrInsufficientStock == "ErrInsufficientStock"
ErrInvalidQuantity == "ErrInvalidQuantity"
ErrInvalidSKU == "ErrInvalidSKU"
\* redis.Nil: the reply of HGET for a missing field or key.
RedisNil == "redis: nil"
\* Any other error of a Redis command (connection, timeout, server error).
StoreError == "StoreError"
\* Any error of the catalog other than codes.NotFound.
CatalogError == "CatalogError"
\* json.Unmarshal's error.
UnmarshalError == "UnmarshalError"

\* A nil *Item / nil map.
Nil == [nil |-> TRUE]

\* ------------------------------------------------------------------ values

\* The largest int32.
MaxInt32 == 2147483647

\* a + b in int32 (a, b int32), wrapping around on overflow as Go does.
Int32Add(a, b) ==
    IF a > 0 /\ b > 0 /\ a > MaxInt32 - b
    THEN (a - MaxInt32 - 1) + (b - MaxInt32 - 1)
    ELSE IF a < 0 /\ b < 0 /\ a + MaxInt32 + 1 < -b
    THEN (a + MaxInt32 + 1) + (b + MaxInt32 + 1)
    ELSE a + b

\* json.Marshal(Item): the object's members in the struct's field order.
Marshal(item) ==
    << item.Quantity, item.Price, item.Name, item.ImageURL, item.ItemTotalPrice >>

WellFormed(s) == Len(s) = 5

\* json.Unmarshal([]byte(s), &Item)
Unmarshal(s) ==
    [ Quantity |-> s[1], Price |-> s[2], Name |-> s[3], ImageURL |-> s[4],
      ItemTotalPrice |-> s[5] ]

\* ------------------------------------------------------------------ redis

\* fmt.Sprintf("cart:%d", userID)
Key(userID) == << "cart", userID >>

Keys == { Key(u) : u \in Users }

\* TTL of a key without expiry.
NoExpiry == -1

\* A key that does not exist: no field, no expiry.
NoKey == [hash |-> {}, ttl |-> NoExpiry]

Fields(h) == { p[1] : p \in h }

\* HGETALL key
HGetAll(db, key) == db[key].hash

\* HGet that answers a field that does not exist with the zero Item.
HGetZeroValue(db, key, field) ==
    IF field \in Fields(db[key].hash)
    THEN [err |-> OK, val |-> (CHOOSE p \in db[key].hash : p[1] = field)[2]]
    ELSE [err |-> OK, val |-> << 0, 0, "", "", 0 >>]

\* HGET key field: the value, or redis.Nil.
HGet(db, key, field) ==
    IF field \in Fields(db[key].hash)
    THEN [err |-> OK, val |-> (CHOOSE p \in db[key].hash : p[1] = field)[2]]
    ELSE [err |-> RedisNil, val |-> << >>]

\* HSet that adds the value beside the one the field already has.
HSetKeepsOld(db, key, field, value) ==
    [db EXCEPT ![key].hash = @ \cup { << field, value >> }]

\* HSet that sets the field only when it has no value (HSETNX).
HSetIfAbsent(db, key, field, value) ==
    IF field \in Fields(db[key].hash) THEN db
    ELSE [db EXCEPT ![key].hash = @ \cup { << field, value >> }]

\* HSet that leaves the hash with the one field only.
HSetOnlyField(db, key, field, value) ==
    [db EXCEPT ![key].hash = { << field, value >> }]

\* HSET key field value: sets the field, replacing its value; creates the key
\* (without expiry) when it does not exist.
HSet(db, key, field, value) ==
    [db EXCEPT ![key].hash = { p \in @ : p[1] # field } \cup { << field, value >> }]

\* Expire that sets the expiry only of a key that has none.
ExpireIfNone(db, key, seconds) ==
    IF db[key].hash = {} \/ db[key].ttl # NoExpiry THEN db
    ELSE [db EXCEPT ![key].ttl = seconds]

\* EXPIRE key seconds: no effect on a key that does not exist.
Expire(db, key, seconds) ==
    IF db[key].hash = {} THEN db ELSE [db EXCEPT ![key].ttl = seconds]

\* HDel that deletes the whole key.
HDelDropsKey(db, key, field) == [db EXCEPT ![key] = NoKey]

\* HDEL key field: removes the field; a hash left empty is deleted with its
\* expiry.
HDel(db, key, field) ==
    LET h == { p \in db[key].hash : p[1] # field }
    IN  [db EXCEPT ![key] = IF h = {} THEN NoKey ELSE [@ EXCEPT !.hash = h]]

\* DEL key
Del(db, key) == [db EXCEPT ![key] = NoKey]

\* Whether a Redis command succeeds (TRUE) or fails with an error: the replies
\* of a store that never fails, and of one that may.
Reliable == {TRUE}

Unreliable == BOOLEAN

\* ------------------------------------------------------------------ state

VARIABLES
    redis,     \* the Redis keyspace: key -> [hash: set of <<field, value>>, ttl]
    last,      \* the last call made to the Cart Manager, with what it returned
    inflight   \* the calls that run at the same time: client -> the call's progress

vars == << redis, last, inflight >>

\* The record of a call: the operation and its arguments, what the catalog
\* answered (lookup), the store and catalog calls it made (calls), what it
\* returned (err, item, cart), whether the SKU had an entry in the user's cart
\* when the call started (had), whether the call repeats the call before
\* it, which succeeded, with the same arguments and the same answer of the
\* catalog (again), and whether one of its store commands failed (failed).
NoCall ==
    [ op |-> "none", userID |-> 0, sku |-> "", quantity |-> 0, lookup |-> NoLookup,
      calls |-> << >>, err |-> OK, item |-> Nil, cart |-> Nil, had |-> FALSE,
      again |-> FALSE, failed |-> FALSE ]

\* The clients whose calls can overlap.
Clients == {1, 2}

\* The progress of a client's call: the command it is about to issue (pc), the
\* operation and its arguments, the value of the sku's field when the call
\* started (before), the value HGet returned (result), the item to store or
\* returned (item), the error returned (err), whether the client's HSet is the
\* latest HSet of all (wroteLast), and whether a key expired since the call
\* started (expired).
NotInFlight ==
    [ pc |-> "idle", op |-> "none", userID |-> 0, sku |-> "", quantity |-> 0,
      before |-> << >>, result |-> << >>, item |-> Nil, err |-> OK,
      wroteLast |-> FALSE, expired |-> FALSE ]

Init ==
    /\ redis = [k \in Keys |-> NoKey]
    /\ last = NoCall
    /\ inflight = [c \in Clients |-> NotInFlight]

\* The call returns: what it was, what it called, what it returned, and the
\* keyspace it leaves.
Return(op, userID, sku, quantity, lookup, calls, failed, err, item, cart, db) ==
    /\ last' = [ op |-> op, userID |-> userID, sku |-> sku, quantity |-> quantity,
                 lookup |-> lookup, calls |-> calls, err |-> err, item |-> item,
                 cart |-> cart,
                 had |-> sku \in Fields(redis[Key(userID)].hash),
                 again |-> /\ last.op = op /\ last.userID = userID /\ last.sku = sku
                           /\ last.quantity = quantity /\ last.lookup = lookup
                           /\ last.err = OK /\ err = OK,
                 failed |-> failed ]
    /\ redis' = db
    /\ UNCHANGED inflight

\* ------------------------------------------------------------------ cart manager

\* Validate with its two checks in the other order.
ValidateSKUFirst(quantity, sku) ==
    IF sku = "" THEN ErrInvalidSKU
    ELSE IF quantity <= 0 THEN ErrInvalidQuantity
    ELSE OK

\* Validate with the quantity check off by one: zero passes.
ValidateZeroPasses(quantity, sku) ==
    IF quantity < 0 THEN ErrInvalidQuantity
    ELSE IF sku = "" THEN ErrInvalidSKU
    ELSE OK

\* The precondition checks of AddItem and UpdateItemQuantity.
Validate(quantity, sku) ==
    IF quantity <= 0 THEN ErrInvalidQuantity
    ELSE IF sku = "" THEN ErrInvalidSKU
    ELSE OK

\* The classification of GetProductBySKU's error.
LookupError(p) ==
    IF p.status = "Found" THEN OK
    ELSE IF p.status = "NotFound" THEN ErrProductNotFound
    ELSE CatalogError

\* The stock check with < mistaken for <=.
InStockStrict(p, quantity) == ~(p.StockQuantity <= quantity)

\* The stock check: p.GetProduct().GetStockQuantity() < quantity fails.
InStock(p, quantity) == ~(p.StockQuantity < quantity)

\* NewItem with the unit price as the line total.
NewItemUnitTotal(quantity, p) ==
    [ Quantity |-> quantity, Price |-> p.Price, Name |-> p.Name,
      ImageURL |-> p.ImageUrl, ItemTotalPrice |-> p.Price ]

\* The entry AddItem builds from the catalog's answer.
NewItem(quantity, p) ==
    [ Quantity |-> quantity, Price |-> p.Price, Name |-> p.Name,
      ImageURL |-> p.ImageUrl, ItemTotalPrice |-> quantity * p.Price ]

\* The entry UpdateItemQuantity builds from the stored one and the catalog's
\* answer: item.Quantity = quantity.
UpdatedItem(item, quantity, p) == [item EXCEPT !.Quantity = quantity]

\* HGetError that passes redis.Nil on as it is.
HGetErrorUnclassified(err) == err

\* The classification of HGet's error in UpdateItemQuantity.
HGetError(err) == IF err = RedisNil THEN ErrItemNotFound ELSE err

RECURSIVE SumPrice(_)
SumPrice(h) ==
    IF h = {} THEN 0
    ELSE LET p == CHOOSE x \in h : TRUE
             CartItem == Unmarshal(p[2])
         IN  CartItem.Price * CartItem.Quantity + SumPrice(h \ {p})

\* totalItems += CartItem.Quantity, in int32.
RECURSIVE SumItems(_)
SumItems(h) ==
    IF h = {} THEN 0
    ELSE LET p == CHOOSE x \in h : TRUE
         IN  Int32Add(SumItems(h \ {p}), Unmarshal(p[2]).Quantity)

\* What GetCart returns for the entries res that HGetAll returned.
CartOf(res) ==
    IF \E p \in res : ~WellFormed(p[2])
    THEN [entries |-> Nil, totalPrice |-> 0, totalItems |-> 0, err |-> UnmarshalError]
    ELSE [entries |-> res, totalPrice |-> SumPrice(res), totalItems |-> SumItems(res),
          err |-> OK]

GetCartFailed == [entries |-> Nil, totalPrice |-> 0, totalItems |-> 0, err |-> StoreError]

GetCart(userID, replies) ==
    LET key == Key(userID) IN
    \E ok \in replies :
        LET cart == IF ok THEN CartOf(HGetAll(redis, key)) ELSE GetCartFailed
        IN  Return("GetCart", userID, "", 0, NoLookup, << "HGetAll" >>, ~ok, cart.err,
                   Nil, cart, redis)

AddItem(userID, quantity, sku, replies) ==
    LET key == Key(userID)
        Ret(lookup, calls, err, item, db) ==
            Return("AddItem", userID, sku, quantity, lookup, calls, err = StoreError,
                   err, item, Nil, db)
    IN
    IF Validate(quantity, sku) # OK
    THEN Ret(NoLookup, << >>, Validate(quantity, sku), Nil, redis)
    ELSE \E p \in Lookups :
        IF LookupError(p) # OK
        THEN Ret(p, << "GetProductBySKU" >>, LookupError(p), Nil, redis)
        ELSE IF ~InStock(p, quantity)
        THEN Ret(p, << "GetProductBySKU" >>, ErrInsufficientStock, Nil, redis)
        ELSE LET item == NewItem(quantity, p)
                 encodedValue == Marshal(item)
             IN
             \E okSet \in replies :
                IF ~okSet
                THEN Ret(p, << "GetProductBySKU", "HSet" >>, StoreError, Nil, redis)
                ELSE LET db1 == HSet(redis, key, sku, encodedValue) IN
                     \E okExpire \in replies :
                        IF ~okExpire
                        THEN Ret(p, << "GetProductBySKU", "HSet", "Expire" >>,
                                 StoreError, Nil, db1)
                        ELSE Ret(p, << "GetProductBySKU", "HSet", "Expire" >>, OK,
                                 item, Expire(db1, key, ttl))

UpdateItemQuantity(userID, quantity, sku, replies) ==
    LET key == Key(userID)
        Ret(lookup, calls, err, item, db) ==
            Return("UpdateItemQuantity", userID, sku, quantity, lookup, calls,
                   err = StoreError, err, item, Nil, db)
    IN
    IF Validate(quantity, sku) # OK
    THEN Ret(NoLookup, << >>, Validate(quantity, sku), Nil, redis)
    ELSE \E okGet \in replies :
        LET result == IF okGet THEN HGet(redis, key, sku)
                      ELSE [err |-> StoreError, val |-> << >>]
        IN
        IF result.err # OK
        THEN Ret(NoLookup, << "HGet" >>, HGetError(result.err), Nil, redis)
        ELSE \E p \in Lookups :
            IF LookupError(p) # OK
            THEN Ret(p, << "HGet", "GetProductBySKU" >>, LookupError(p), Nil, redis)
            ELSE IF ~InStock(p, quantity)
            THEN Ret(p, << "HGet", "GetProductBySKU" >>, ErrInsufficientStock, Nil,
                     redis)
            ELSE IF ~WellFormed(result.val)
            THEN Ret(p, << "HGet", "GetProductBySKU" >>, UnmarshalError, Nil, redis)
            ELSE LET item == UpdatedItem(Unmarshal(result.val), quantity, p)
                     encodedValue == Marshal(item)
                 IN
                 \E okSet \in replies :
                    IF ~okSet
                    THEN Ret(p, << "HGet", "GetProductBySKU", "HSet" >>, StoreError,
                             Nil, redis)
                    ELSE LET db1 == HSet(redis, key, sku, encodedValue) IN
                         \E okExpire \in replies :
                            IF ~okExpire
                            THEN Ret(p, << "HGet", "GetProductBySKU", "HSet", "Expire" >>,
                                     StoreError, Nil, db1)
                            ELSE Ret(p, << "HGet", "GetProductBySKU", "HSet", "Expire" >>,
                                     OK, item, Expire(db1, key, ttl))

\* RemoveItem returns nothing: the HDel's error, if any, is dropped.
RemoveItem(userID, sku, replies) ==
    LET key == Key(userID) IN
    \E ok \in replies :
        Return("RemoveItem", userID, sku, 0, NoLookup, << "HDel" >>, ~ok, OK, Nil, Nil,
               IF ok THEN HDel(redis, key, sku) ELSE redis)

\* ClearCart returns nothing: the Del's error, if any, is dropped.
ClearCart(userID, replies) ==
    LET key == Key(userID) IN
    \E ok \in replies :
        Return("ClearCart", userID, "", 0, NoLookup, << "Del" >>, ~ok, OK, Nil, Nil,
               IF ok THEN Del(redis, key) ELSE redis)

\* One second passes: every expiry set by Expire counts down, and a key whose
\* expiry runs out is deleted.
Elapse(db) ==
    [k \in Keys |->
        IF db[k].ttl > 1 THEN [db[k] EXCEPT !.ttl = @ - 1]
        ELSE IF db[k].ttl = 1 THEN NoKey
        ELSE db[k]]

Tick ==
    /\ \E k \in Keys : redis[k].ttl > 0
    /\ redis' = Elapse(redis)
    /\ last' = [NoCall EXCEPT !.op = "Tick"]
    /\ UNCHANGED inflight

\* The calls of one user after the other, each running to its end before the
\* next starts, against a store whose commands all succeed.
Next ==
    \/ \E u \in Users : GetCart(u, Reliable)
    \/ \E u \in Users, q \in Quantities, s \in SKUs : AddItem(u, q, s, Reliable)
    \/ \E u \in Users, q \in Quantities, s \in SKUs :
            UpdateItemQuantity(u, q, s, Reliable)
    \/ \E u \in Users, s \in SKUs : RemoveItem(u, s, Reliable)
    \/ \E u \in Users : ClearCart(u, Reliable)
    \/ Tick

Spec == Init /\ [][Next]_vars

\* The same calls against a store any of whose commands may fail: a command
\* that fails returns an error and has no effect.
NextFaulty ==
    \/ \E u \in Users : GetCart(u, Unreliable)
    \/ \E u \in Users, q \in Quantities, s \in SKUs : AddItem(u, q, s, Unreliable)
    \/ \E u \in Users, q \in Quantities, s \in SKUs :
            UpdateItemQuantity(u, q, s, Unreliable)
    \/ \E u \in Users, s \in SKUs : RemoveItem(u, s, Unreliable)
    \/ \E u \in Users : ClearCart(u, Unreliable)
    \/ Tick

SpecFaulty == Init /\ [][NextFaulty]_vars

\* Time does not stop: while a key has an expiry, the next second passes.
SpecFair == Spec /\ WF_vars(Tick)

SpecFaultyFair == SpecFaulty /\ WF_vars(Tick)

\* ------------------------------------------------------------------ carts

\* The entries AddItem writes, given the catalog's answers lookups: any valid
\* quantity up to the stock.
AddedEntries(lookups) ==
    UNION { { Marshal(NewItem(q, p)) :
                p \in { x \in lookups : x.status = "Found" /\ InStock(x, q) } } :
            q \in 1 .. MaxQty }

\* The carts of the given entries: each SKU has one or none.
CartsOf(entries) ==
    { h \in SUBSET ((SKUs \ {""}) \X entries) : Cardinality(Fields(h)) = Cardinality(h) }

\* The keyspaces AddItem calls have left: a cart with its expiry running.
Written(carts) ==
    { [k \in Keys |-> IF h = {} THEN NoKey ELSE [hash |-> h, ttl |-> t]] :
        h \in carts, t \in 1 .. ttl }

\* ------------------------------------------------------------------ overlapping calls

\* The calls of two clients on the same user's cart, each call one store or
\* catalog command at a time, the commands of the two in any order.

\* The catalog's data does not change while the calls overlap.
Catalogued == CHOOSE d \in CatalogData : TRUE

InFlightLookups ==
    { p \in Lookups :
        p.status = "Found" =>
            [Price |-> p.Price, Name |-> p.Name, ImageUrl |-> p.ImageUrl] = Catalogued }

InFlight(c, pc, err) == [inflight EXCEPT ![c].pc = pc, ![c].err = err]

\* Client c calls a mutating operation: AddItem and UpdateItemQuantity check
\* their arguments first.
Begin(c, op, userID, quantity, sku) ==
    /\ inflight[c].pc = "idle"
    /\ LET invalid == IF op \in {"AddItem", "UpdateItemQuantity"}
                      THEN Validate(quantity, sku) ELSE OK
           first == CASE op = "AddItem" -> "GetProductBySKU"
                      [] op = "UpdateItemQuantity" -> "HGet"
                      [] op = "RemoveItem" -> "HDel"
                      [] op = "ClearCart" -> "Del"
       IN  inflight' = [inflight EXCEPT ![c] =
                [ NotInFlight EXCEPT
                    !.pc = IF invalid # OK THEN "done" ELSE first,
                    !.op = op, !.userID = userID, !.sku = sku, !.quantity = quantity,
                    !.before = HGet(redis, Key(userID), sku).val,
                    !.err = invalid ]]
    /\ UNCHANGED << redis, last >>

\* UpdateItemQuantity's c.redisClient.HGet(ctx, key, sku).
DoHGet(c) ==
    /\ inflight[c].pc = "HGet"
    /\ LET result == HGet(redis, Key(inflight[c].userID), inflight[c].sku) IN
       inflight' = IF result.err # OK
                   THEN InFlight(c, "done", HGetError(result.err))
                   ELSE [inflight EXCEPT ![c].pc = "GetProductBySKU",
                                         ![c].result = result.val]
    /\ UNCHANGED << redis, last >>

\* c.productClient.GetProductBySKU with the checks that follow it, up to the
\* item to store.
DoGetProductBySKU(c) ==
    /\ inflight[c].pc = "GetProductBySKU"
    /\ \E p \in InFlightLookups :
        LET call == inflight[c] IN
        inflight' =
            IF LookupError(p) # OK THEN InFlight(c, "done", LookupError(p))
            ELSE IF ~InStock(p, call.quantity)
            THEN InFlight(c, "done", ErrInsufficientStock)
            ELSE IF call.op = "AddItem"
            THEN [inflight EXCEPT ![c].pc = "HSet",
                                  ![c].item = NewItem(call.quantity, p)]
            ELSE IF ~WellFormed(call.result) THEN InFlight(c, "done", UnmarshalError)
            ELSE [inflight EXCEPT ![c].pc = "HSet",
                                  ![c].item = UpdatedItem(Unmarshal(call.result),
                                                          call.quantity, p)]
    /\ UNCHANGED << redis, last >>

\* c.redisClient.HSet(ctx, key, sku, string(value)).
DoHSet(c) ==
    /\ inflight[c].pc = "HSet"
    /\ redis' = HSet(redis, Key(inflight[c].userID), inflight[c].sku,
                     Marshal(inflight[c].item))
    /\ inflight' = [d \in Clients |->
                        IF d = c THEN [inflight[d] EXCEPT !.pc = "Expire", !.wroteLast = TRUE]
                        ELSE [inflight[d] EXCEPT !.wroteLast = FALSE]]
    /\ UNCHANGED last

\* c.redisClient.Expire(ctx, key, c.ttl), and the return of the item.
DoExpire(c) ==
    /\ inflight[c].pc = "Expire"
    /\ redis' = Expire(redis, Key(inflight[c].userID), ttl)
    /\ inflight' = InFlight(c, "done", OK)
    /\ UNCHANGED last

\* RemoveItem's c.redisClient.HDel(ctx, key, sku).
DoHDel(c) ==
    /\ inflight[c].pc = "HDel"
    /\ redis' = HDel(redis, Key(inflight[c].userID), inflight[c].sku)
    /\ inflight' = InFlight(c, "done", OK)
    /\ UNCHANGED last

\* ClearCart's c.redisClient.Del(ctx, key).
DoDel(c) ==
    /\ inflight[c].pc = "Del"
    /\ redis' = Del(redis, Key(inflight[c].userID))
    /\ inflight' = InFlight(c, "done", OK)
    /\ UNCHANGED last

\* One second passes while calls are in progress.
TickInFlight ==
    /\ \E k \in Keys : redis[k].ttl > 0
    /\ redis' = Elapse(redis)
    /\ inflight' = [c \in Clients |->
                        IF inflight[c].pc # "idle"
                           /\ \E k \in Keys : redis[k].hash # redis'[k].hash
                        THEN [inflight[c] EXCEPT !.expired = TRUE]
                        ELSE inflight[c]]
    /\ UNCHANGED last

\* The two clients find a cart that earlier AddItem calls have written.
InitInFlight ==
    /\ redis \in Written(CartsOf(AddedEntries(InFlightLookups)))
    /\ last = NoCall
    /\ inflight = [c \in Clients |-> NotInFlight]

NextInFlight ==
    \/ \E c \in Clients, u \in Users, q \in Quantities, s \in SKUs :
            Begin(c, "AddItem", u, q, s)
    \/ \E c \in Clients, u \in Users, q \in Quantities, s \in SKUs :
            Begin(c, "UpdateItemQuantity", u, q, s)
    \/ \E c \in Clients, u \in Users, s \in SKUs : Begin(c, "RemoveItem", u, 0, s)
    \/ \E c \in Clients, u \in Users : Begin(c, "ClearCart", u, 0, "")
    \/ \E c \in Clients : DoHGet(c)
    \/ \E c \in Clients : DoGetProductBySKU(c)
    \/ \E c \in Clients : DoHSet(c)
    \/ \E c \in Clients : DoExpire(c)
    \/ \E c \in Clients : DoHDel(c)
    \/ \E c \in Clients : DoDel(c)
    \/ TickInFlight

SpecInFlight == InitInFlight /\ [][NextInFlight]_vars

\* ------------------------------------------------------------------ request adapter

\* grpc status codes.
CodesOK == "codes.OK"
CodesNotFound == "codes.NotFound"
CodesInternal == "codes.Internal"

\* The status Server.GetCart answers with when ShoppingCart.GetCart returned err.
ServerGetCart(err) == IF err # OK THEN CodesInternal ELSE CodesOK

\* The status Server.AddItem answers with when ShoppingCart.AddItem returned err.
ServerAddItem(err) == IF err # OK THEN CodesInternal ELSE CodesOK

\* The status Server.UpdateItem answers with when
\* ShoppingCart.UpdateItemQuantity returned err.
ServerUpdateItem(err) ==
    IF err # OK
    THEN IF err = ErrItemNotFound THEN CodesNotFound ELSE CodesInternal
    ELSE CodesOK

\* The status the adapter answers with for operation op of the Cart Manager;
\* Server.RemoveItem and Server.ClearCart have no error to map.
ServerStatus(op, err) ==
    CASE op = "GetCart" -> ServerGetCart(err)
      [] op = "AddItem" -> ServerAddItem(err)
      [] op = "UpdateItemQuantity" -> ServerUpdateItem(err)
      [] OTHER -> CodesOK

\* ------------------------------------------------------------------ GetCart's totals

\* A free product of unlimited stock: the catalog reports the largest int32.
FreeUnlimited ==
    [ status |-> "Found", Price |-> 0, Name |-> "name-free", ImageUrl |-> "img-free",
      StockQuantity |-> MaxInt32 ]

\* The entries AddItem writes, given the catalog's answers and FreeUnlimited.
TotalsEntries == AddedEntries(Lookups) \cup { Marshal(NewItem(MaxInt32, FreeUnlimited)) }

InitTotals ==
    /\ redis \in Written(CartsOf(TotalsEntries))
    /\ last = NoCall
    /\ inflight = [c \in Clients |-> NotInFlight]

NextTotals == \E u \in Users : GetCart(u, Reliable)

\* GetCart on the carts AddItem can have written.
SpecTotals == InitTotals /\ [][NextTotals]_vars

\* ------------------------------------------------------------------ claims

Mutators == {"AddItem", "UpdateItemQuantity"}

\* The entries persisted under userID's key for sku, decoded.
Stored(userID, sku) ==
    { Unmarshal(p[2]) : p \in { x \in redis[Key(userID)].hash : x[1] = sku } }

AllStored == UNION { Stored(u, s) : u \in Users, s \in SKUs }

Succeeded(op) == last.op = op /\ last.err = OK

\* C1: every persisted entry, and every entry a call returns, has
\* lineTotal = quantity * unitPrice.
C1_LineTotalConsistent ==
    /\ \A e \in AllStored : e.ItemTotalPrice = e.Quantity * e.Price
    /\ (last.op \in Mutators /\ last.err = OK) =>
            last.item.ItemTotalPrice = last.item.Quantity * last.item.Price

\* C2: after a successful UpdateItemQuantity the persisted and the returned
\* entry carry the price, name and image the catalog answered during that call.
C2_UpdateResnapshots ==
    Succeeded("UpdateItemQuantity") =>
        \A e \in Stored(last.userID, last.sku) \cup {last.item} :
            /\ e.Price = last.lookup.Price
            /\ e.Name = last.lookup.Name
            /\ e.ImageURL = last.lookup.ImageUrl

\* C3: every persisted entry has quantity >= 1, and an AddItem or
\* UpdateItemQuantity asking for a quantity <= 0 is rejected with
\* ErrInvalidQuantity and returns no entry (it is not clamped to a valid one).
C3_QuantityPositive ==
    /\ \A e \in AllStored : e.Quantity >= 1
    /\ (last.op \in Mutators /\ last.quantity <= 0) =>
            (last.err = ErrInvalidQuantity /\ last.item = Nil)

\* A request for a quantity <= 0 was rejected while the cart holds an entry.
C3_Witness ==
    /\ last.op \in Mutators
    /\ last.quantity <= 0
    /\ last.err = ErrInvalidQuantity
    /\ AllStored # {}

\* C4: after a successful AddItem(user, sku, quantity), GetCart(user) shows
\* exactly one entry for sku, equal to the entry AddItem returned, with the
\* requested quantity, the price of the catalog's answer and
\* lineTotal = quantity * price; and AddItem with valid arguments succeeds
\* whenever the catalog reports stock >= quantity.
C4_AddThenGet ==
    /\ Succeeded("AddItem") =>
        LET cart == CartOf(HGetAll(redis, Key(last.userID)))
            mine == { p \in cart.entries : p[1] = last.sku }
        IN  /\ cart.err = OK
            /\ Cardinality(mine) = 1
            /\ \A p \in mine :
                /\ Unmarshal(p[2]) = last.item
                /\ Unmarshal(p[2]).Quantity = last.quantity
                /\ Unmarshal(p[2]).Price = last.lookup.Price
                /\ Unmarshal(p[2]).ItemTotalPrice = last.quantity * last.lookup.Price
    /\ ( /\ last.op = "AddItem"
         /\ last.quantity >= 1
         /\ last.sku # ""
         /\ last.lookup.status = "Found"
         /\ last.lookup.StockQuantity >= last.quantity ) => last.err = OK

\* A successful AddItem of the largest quantity into a cart that holds another
\* SKU too.
C4_Witness ==
    /\ Succeeded("AddItem")
    /\ last.quantity = MaxQty
    /\ Cardinality(redis[Key(last.userID)].hash) = 2

NoDuplicates ==
    \A k \in Keys : Cardinality(Fields(redis[k].hash)) = Cardinality(redis[k].hash)

AddOverwrites ==
    (last'.op = "AddItem" /\ last'.err = OK) =>
        /\ { p \in redis'[Key(last'.userID)].hash : p[1] = last'.sku }
                = { << last'.sku, Marshal(last'.item) >> }
        /\ last'.item.Quantity = last'.quantity
        /\ last'.again => redis' = redis

\* C5: a successful AddItem leaves exactly one entry for its SKU, with the
\* quantity of this call (whatever entry the SKU had before); an AddItem that
\* repeats the successful AddItem before it, with the same answer of the
\* catalog, leaves the store as it was; no cart holds two entries for one SKU.
C5_AddOverwrites == [][AddOverwrites]_vars /\ []NoDuplicates

\* The second of two successful AddItem calls with the same arguments.
C5_Witness ==
    /\ Succeeded("AddItem")
    /\ last.again
    /\ last.had
    /\ last.quantity = MaxQty

UpdateAbsent ==
    ( /\ last'.op = "UpdateItemQuantity"
      /\ last'.quantity >= 1
      /\ last'.sku # ""
      /\ last'.sku \notin Fields(redis[Key(last'.userID)].hash) ) =>
        /\ last'.err = ErrItemNotFound
        /\ last'.item = Nil
        /\ last'.calls = << "HGet" >>
        /\ last'.lookup = NoLookup
        /\ redis' = redis

\* C6: UpdateItemQuantity with valid arguments for a SKU that has no entry in
\* the user's cart returns ErrItemNotFound after the HGet alone: the catalog
\* is not called, and the store is left as it was.
C6_UpdateAbsent == [][UpdateAbsent]_vars

\* UpdateItemQuantity of a SKU that is not in a cart holding another SKU.
C6_Witness ==
    /\ last.op = "UpdateItemQuantity"
    /\ last.err = ErrItemNotFound
    /\ ~last.had
    /\ last.quantity >= 1
    /\ redis[Key(last.userID)].hash # {}

InvalidRejected ==
    last'.op \in Mutators =>
        /\ last'.quantity <= 0 => last'.err = ErrInvalidQuantity
        /\ (last'.quantity >= 1 /\ last'.sku = "") => last'.err = ErrInvalidSKU
        /\ last'.err \in {ErrInvalidQuantity, ErrInvalidSKU} =>
                (last'.calls = << >> /\ last'.item = Nil /\ redis' = redis)

\* C7: AddItem and UpdateItemQuantity with quantity <= 0 return
\* ErrInvalidQuantity, and with quantity >= 1 and an empty sku ErrInvalidSKU,
\* having called neither the store nor the catalog: entries and expiry are
\* what they were.
C7_InvalidRejected == [][InvalidRejected]_vars

\* A call with quantity <= 0 and an empty sku, rejected for its quantity, on a
\* cart whose expiry has started to run down.
C7_Witness ==
    /\ last.op \in Mutators
    /\ last.err = ErrInvalidQuantity
    /\ last.sku = ""
    /\ \E k \in Keys : redis[k].hash # {} /\ redis[k].ttl = 1

\* C8 as stated: AddItem or UpdateItemQuantity (with valid arguments) for a
\* quantity greater than the stock the catalog has for the SKU returns
\* ErrInsufficientStock.
C8_StockExceeded ==
    \A p \in Lookups :
        ( /\ last.op \in Mutators
          /\ last.quantity >= 1
          /\ last.sku # ""
          /\ last.lookup \in {p, NoLookup}
          /\ p.status = "Found"
          /\ p.StockQuantity < last.quantity ) => last.err = ErrInsufficientStock

StockChecked ==
    ( /\ last'.op \in Mutators
      /\ last'.quantity >= 1
      /\ last'.sku # ""
      /\ last'.op = "UpdateItemQuantity" =>
            last'.sku \in Fields(redis[Key(last'.userID)].hash)
      /\ last'.lookup.status = "Found" ) =>
        IF last'.lookup.StockQuantity < last'.quantity
        THEN /\ last'.err = ErrInsufficientStock
             /\ last'.item = Nil
             /\ redis' = redis
        ELSE last'.err = OK

\* C8 amended: AddItem, or UpdateItemQuantity of a SKU that has an entry in the
\* cart, with valid arguments and a quantity greater than the stock the
\* catalog answers, returns ErrInsufficientStock and leaves entries and expiry
\* as they were; with a quantity up to the stock it succeeds.
C8_StockChecked == [][StockChecked]_vars

\* UpdateItemQuantity beyond the stock, of an entry whose cart's expiry has
\* started to run down.
C8_Witness ==
    /\ last.op = "UpdateItemQuantity"
    /\ last.err = ErrInsufficientStock
    /\ last.had
    /\ redis[Key(last.userID)].ttl = 1

ExpiryRefreshed ==
    LET k == Key(last'.userID) IN
    /\ (last'.op \in Mutators /\ last'.err = OK) => redis'[k].ttl = ttl
    /\ last'.op = "GetCart" => redis'[k].ttl = redis[k].ttl
    /\ (last'.op = "RemoveItem" /\ redis'[k].hash # {}) => redis'[k].ttl = redis[k].ttl

\* C9: a successful AddItem or UpdateItemQuantity leaves the key's expiry at
\* the configured window ttl; GetCart, and RemoveItem that leaves the cart
\* non-empty, leave the expiry as it was.
C9_ExpiryRefreshed == [][ExpiryRefreshed]_vars

\* RemoveItem took an entry out of a cart that stays non-empty and whose
\* expiry has started to run down.
C9_Witness ==
    /\ last.op = "RemoveItem"
    /\ last.had
    /\ redis[Key(last.userID)].hash # {}
    /\ redis[Key(last.userID)].ttl = 1

DeleteIdempotent ==
    LET k == Key(last'.userID) IN
    /\ last'.op = "RemoveItem" =>
        /\ last'.err = OK
        /\ last'.sku \notin Fields(redis'[k].hash)
        /\ { p \in redis'[k].hash : p[1] # last'.sku }
                = { p \in redis[k].hash : p[1] # last'.sku }
        /\ last'.sku \notin Fields(redis[k].hash) => redis' = redis
        /\ last'.again => redis' = redis
    /\ last'.op = "ClearCart" =>
        /\ last'.err = OK
        /\ redis'[k] = NoKey
        /\ redis[k] = NoKey => redis' = redis
        /\ last'.again => redis' = redis

\* C10: RemoveItem of a SKU that is not in the cart, and ClearCart of a cart
\* that does not exist, return no error and leave the store as it was; a
\* RemoveItem or ClearCart repeated leaves the store as the first left it;
\* RemoveItem leaves the entries of every other SKU as they were.
C10_DeleteIdempotent == [][DeleteIdempotent]_vars

\* RemoveItem repeated on a cart that holds another SKU.
C10_Witness ==
    /\ last.op = "RemoveItem"
    /\ last.again
    /\ redis[Key(last.userID)].hash # {}

\* Whether total is the sum of the quantities (all >= 1) of the entries h.
RECURSIVE IsSumOfQuantities(_, _)
IsSumOfQuantities(total, h) ==
    IF h = {} THEN total = 0
    ELSE LET p == CHOOSE x \in h : TRUE
             q == Unmarshal(p[2]).Quantity
         IN  total >= q /\ IsSumOfQuantities(total - q, h \ {p})

RECURSIVE IsSumOfLines(_, _)
IsSumOfLines(total, h) ==
    IF h = {} THEN total = 0
    ELSE LET p == CHOOSE x \in h : TRUE
             e == Unmarshal(p[2])
         IN  total >= e.Quantity * e.Price
             /\ IsSumOfLines(total - e.Quantity * e.Price, h \ {p})

GetCartTotals ==
    last.op = "GetCart" =>
        /\ last.err = OK
        /\ last.cart.entries = redis[Key(last.userID)].hash
        /\ IsSumOfLines(last.cart.totalPrice, last.cart.entries)
        /\ IsSumOfQuantities(last.cart.totalItems, last.cart.entries)
        /\ redis[Key(last.userID)].hash = {} =>
                (last.cart.totalPrice = 0 /\ last.cart.totalItems = 0)

GetCartReadsOnly == last'.op = "GetCart" => redis' = redis

\* C11: GetCart returns the entries stored under the user's key with
\* totalPrice = the sum of quantity * unitPrice and totalItemCount = the sum of
\* the quantities of those entries (zero and no error for an empty cart), and
\* leaves the store as it was.
C11_GetCartTotals == []GetCartTotals /\ [][GetCartReadsOnly]_vars

StoreFailureReported == last.failed => last.err # OK

RemovedWhenSucceeded ==
    (last.op = "RemoveItem" /\ last.err = OK) =>
        last.sku \notin Fields(redis[Key(last.userID)].hash)

ClearedWhenSucceeded ==
    (last.op = "ClearCart" /\ last.err = OK) => redis[Key(last.userID)].hash = {}

\* C12: no operation reports success when one of its store commands failed:
\* after a RemoveItem that reported success the user's cart has no entry for
\* the sku, and after a ClearCart that reported success the cart is empty.
C12_StoreFailureReported ==
    StoreFailureReported /\ RemovedWhenSucceeded /\ ClearedWhenSucceeded

\* The transport class of a grpc status code.
StatusClass(code) ==
    CASE code = CodesOK -> "success"
      [] code = CodesNotFound -> "not-found"
      [] code = CodesInternal -> "internal-error"
      [] code \in {"codes.InvalidArgument", "codes.OutOfRange"} -> "client-error"
      [] code \in {"codes.FailedPrecondition", "codes.Aborted", "codes.AlreadyExists"} ->
            "conflict/precondition"
      [] OTHER -> "other"

\* The transport class the adapter is to map an error kind to.
ErrorClass(err) ==
    CASE err = OK -> "success"
      [] err \in {ErrInvalidQuantity, ErrInvalidSKU} -> "client-error"
      [] err \in {ErrItemNotFound, ErrProductNotFound} -> "not-found"
      [] err = ErrInsufficientStock -> "conflict/precondition"
      [] OTHER -> "internal-error"

\* C16: for every operation the adapter answers an error of the Cart Manager
\* with a status of the error kind's class: client-error for InvalidQuantity
\* and InvalidSKU, not-found for ItemNotFound and ProductNotFound,
\* conflict/precondition for InsufficientStock, internal-error for the rest.
C16_AdapterMapping ==
    last.op \in {"GetCart", "AddItem", "UpdateItemQuantity", "RemoveItem", "ClearCart"} =>
        StatusClass(ServerStatus(last.op, last.err)) = ErrorClass(last.err)

\* The user's cart is empty again and again.
CartDestroyed(k) == []<>(redis[k].hash = {})

\* An AddItem or UpdateItemQuantity on key k succeeds again and again.
CartMutated(k) ==
    []<><< /\ last'.op \in {"AddItem", "UpdateItemQuantity"}
           /\ last'.err = OK
           /\ Key(last'.userID) = k >>_vars

\* C15: a cart that no AddItem or UpdateItemQuantity succeeds on any more is
\* eventually destroyed (cleared, emptied or expired): no cart stays non-empty
\* forever without a further mutation.
C15_CartEventuallyDestroyed == \A k \in Keys : CartDestroyed(k) \/ CartMutated(k)

FailedMutationKeepsEntries ==
    (last'.op \in {"AddItem", "UpdateItemQuantity"} /\ last'.err # OK) =>
        redis'[Key(last'.userID)].hash = redis[Key(last'.userID)].hash

\* C18: when AddItem or UpdateItemQuantity returns an error, whatever the
\* error, the entries of the user's cart are those of before the call.
C18_FailedMutationKeepsEntries == [][FailedMutationKeepsEntries]_vars

\* Every key that has entries has an expiry of at most the idle window.
EntriesExpire == \A k \in Keys : redis[k].hash # {} => redis[k].ttl \in 1 .. ttl

\* The entry of the AddItem or UpdateItemQuantity that just succeeded is stored.
SucceededEntryStored ==
    (last.op \in {"AddItem", "UpdateItemQuantity"} /\ last.err = OK) =>
        << last.sku, Marshal(last.item) >> \in redis[Key(last.userID)].hash

\* C19: whenever no call is in progress a cart that has entries has an expiry
\* of at most the idle window, and the entry of a successful AddItem or
\* UpdateItemQuantity is in the store when the call returns.
C19_EntriesExpire == EntriesExpire /\ SucceededEntryStored

\* ------------------------------------------------------------------ overlapping calls

Done(c) == inflight[c].pc = "done"

Returned(c, op) == Done(c) /\ inflight[c].op = op

\* No key expired while the call of c or d was in progress.
NoExpiry2(c, d) == ~inflight[c].expired /\ ~inflight[d].expired

\* c and d are two UpdateItemQuantity calls on the same entry that both
\* succeeded.
BothUpdated(c, d) ==
    /\ c # d
    /\ Returned(c, "UpdateItemQuantity") /\ inflight[c].err = OK
    /\ Returned(d, "UpdateItemQuantity") /\ inflight[d].err = OK
    /\ inflight[c].userID = inflight[d].userID
    /\ inflight[c].sku = inflight[d].sku

LastWriteWins ==
    \A c, d \in Clients :
        (BothUpdated(c, d) /\ NoExpiry2(c, d)) =>
            LET k == Key(inflight[c].userID)
                s == inflight[c].sku
            IN  /\ inflight[c].wroteLast # inflight[d].wroteLast
                /\ \A w \in {c, d} :
                        inflight[w].wroteLast =>
                            { p \in redis[k].hash : p[1] = s }
                                = { << s, Marshal(inflight[w].item) >> }
                /\ \A e \in Stored(inflight[c].userID, s) :
                        e.Quantity \in {inflight[c].quantity, inflight[d].quantity}
                /\ Cardinality(Fields(redis[k].hash)) = Cardinality(redis[k].hash)

\* C13: when two UpdateItemQuantity calls on the same entry overlap, their
\* commands in any order, and both succeed, the sku has exactly one entry: the
\* one the later of the two HSets wrote, whole, with the quantity of one of the
\* two calls.
C13_LastWriteWins == LastWriteWins

\* Both calls read the entry before either wrote, asked for different
\* quantities, and succeeded.
C13_Witness ==
    \E c, d \in Clients :
        /\ BothUpdated(c, d)
        /\ NoExpiry2(c, d)
        /\ inflight[c].quantity # inflight[d].quantity
        /\ inflight[c].result = inflight[d].result
        /\ inflight[d].wroteLast
        /\ Unmarshal(inflight[d].result).Quantity # inflight[d].quantity

\* What the call of c gives when it runs alone on the entry its sku had when
\* it started: the entry it leaves for the sku.
Alone(c) ==
    LET call == inflight[c] IN
    CASE call.op = "RemoveItem" -> {}
      [] call.op = "AddItem" /\ call.err = OK ->
            IF \E p \in InFlightLookups :
                    /\ LookupError(p) = OK /\ InStock(p, call.quantity)
                    /\ call.item = NewItem(call.quantity, p)
            THEN { call.item } ELSE { Nil }
      [] call.op = "UpdateItemQuantity" /\ call.err = OK ->
            IF call.before # << >>
               /\ call.item = [Unmarshal(call.before) EXCEPT !.Quantity = call.quantity]
            THEN { call.item } ELSE { Nil }
      [] OTHER ->
            IF call.before = << >> THEN {} ELSE { Unmarshal(call.before) }

\* c and d are two calls of AddItem, UpdateItemQuantity or RemoveItem on
\* different SKUs of the same cart that have both returned.
BothReturned(c, d) ==
    /\ c # d
    /\ Done(c) /\ Done(d)
    /\ {inflight[c].op, inflight[d].op}
            \subseteq {"AddItem", "UpdateItemQuantity", "RemoveItem"}
    /\ inflight[c].userID = inflight[d].userID
    /\ inflight[c].sku # inflight[d].sku

AsOneAfterTheOther ==
    \A c, d \in Clients :
        (BothReturned(c, d) /\ NoExpiry2(c, d)) =>
            /\ Stored(inflight[c].userID, inflight[c].sku) = Alone(c)
            /\ Stored(inflight[d].userID, inflight[d].sku) = Alone(d)

\* A command of a call on one SKU leaves the entries of the other SKUs alone.
OtherEntriesKept ==
    \A c \in Clients :
        (/\ inflight'[c].pc # inflight[c].pc
         /\ inflight'[c].op \in {"AddItem", "UpdateItemQuantity", "RemoveItem"}) =>
            \A s \in SKUs \ {inflight'[c].sku} :
                { p \in redis'[Key(inflight'[c].userID)].hash : p[1] = s }
                    = { p \in redis[Key(inflight'[c].userID)].hash : p[1] = s }

\* C14: when two calls of AddItem, UpdateItemQuantity or RemoveItem on
\* different SKUs of one cart overlap, their commands in any order, each SKU
\* ends with the entry its call gives when run alone (so the cart is that of
\* the two calls one after the other, in either order), and no command of one
\* call changes the entry of the other SKU.
C14_DistinctSKUsSerial == []AsOneAfterTheOther /\ [][OtherEntriesKept]_vars

\* An AddItem of a new SKU and a RemoveItem of the only stored SKU have both
\* returned.
C14_Witness ==
    \E c, d \in Clients :
        /\ BothReturned(c, d)
        /\ NoExpiry2(c, d)
        /\ Returned(c, "AddItem") /\ inflight[c].err = OK /\ inflight[c].before = << >>
        /\ Returned(d, "RemoveItem") /\ inflight[d].before # << >>
        /\ Stored(inflight[c].userID, inflight[c].sku) = { inflight[c].item }
        /\ Stored(inflight[d].userID, inflight[d].sku) = {}

\* The HSet of an UpdateItemQuantity finds an entry for the sku.
UpdateNeverCreates ==
    \A c \in Clients :
        (/\ inflight[c].op = "UpdateItemQuantity"
         /\ inflight[c].pc = "HSet" /\ inflight'[c].pc = "Expire") =>
            inflight[c].sku \in Fields(redis[Key(inflight[c].userID)].hash)

\* C17 as stated: under any interleaving with RemoveItem, ClearCart or expiry,
\* UpdateItemQuantity writes only when the sku has an entry at the moment of
\* the write, so that it never creates an entry or brings a removed one back.
C17_UpdateNeverCreates == [][UpdateNeverCreates]_vars

\* An UpdateItemQuantity that is past its HGet has read an entry, and the item
\* it writes is that entry with the quantity replaced.
UpdateHasRead ==
    \A c \in Clients :
        inflight[c].op = "UpdateItemQuantity" =>
            /\ (inflight[c].pc \in {"GetProductBySKU", "HSet", "Expire"}
                    \/ (Done(c) /\ inflight[c].err = OK)) =>
                    inflight[c].result # << >>
            /\ (inflight[c].pc \in {"HSet", "Expire"} \/ (Done(c) /\ inflight[c].err = OK)) =>
                    inflight[c].item
                        = [Unmarshal(inflight[c].result) EXCEPT
                                !.Quantity = inflight[c].quantity]

\* The HGet of an UpdateItemQuantity returns the entry stored at that moment;
\* when there is none the call fails with ErrItemNotFound.
UpdateReadsStored ==
    \A c \in Clients :
        (inflight[c].pc = "HGet" /\ inflight'[c].pc # "HGet") =>
            LET h == redis[Key(inflight[c].userID)].hash IN
            IF inflight[c].sku \in Fields(h)
            THEN /\ inflight'[c].pc = "GetProductBySKU"
                 /\ << inflight[c].sku, inflight'[c].result >> \in h
            ELSE /\ inflight'[c].pc = "done"
                 /\ inflight'[c].err = ErrItemNotFound

\* A command that is not an HSet creates no entry.
OnlyHSetCreates ==
    \A c \in Clients :
        (inflight'[c].pc # inflight[c].pc /\ inflight[c].pc # "HSet") =>
            \A k \in Keys : Fields(redis'[k].hash) \subseteq Fields(redis[k].hash)

\* C17, amended: UpdateItemQuantity writes only after its own HGet has found an
\* entry for the sku, and writes that entry with the quantity replaced; an
\* UpdateItemQuantity whose HGet finds no entry fails with ErrItemNotFound and
\* writes nothing.
C17_UpdateWritesWhatItRead ==
    []UpdateHasRead /\ [][UpdateReadsStored /\ OnlyHSetCreates]_vars

\* An UpdateItemQuantity has succeeded and its entry is stored although a
\* RemoveItem of the same sku, which found the entry, has returned too: the
\* HDel came between the HGet and the HSet.
C17_Witness ==
    \E c, d \in Clients :
        /\ Returned(c, "UpdateItemQuantity") /\ inflight[c].err = OK
        /\ Returned(d, "RemoveItem") /\ inflight[d].before # << >>
        /\ inflight[c].sku = inflight[d].sku
        /\ NoExpiry2(c, d)
        /\ Stored(inflight[c].userID, inflight[c].sku) = { inflight[c].item }

====
